---- MODULE Spec2Model ----
(***************************************************************************)
(* Model of the EdgeDetectionUI repository: the edge-detection functions   *)
(* of processors/edges.py, the colour-space converters of                  *)
(* utils/image_io.py and the Streamlit script of app.py.                   *)
(*                                                                         *)
(* A raster (numpy array) is a record [ndim, data]: ndim = 2 is a          *)
(* single-channel array whose data is a sequence of rows of numbers,       *)
(* ndim = 3 a colour array whose data is a sequence of rows of             *)
(* <<c1, c2, c3>> triples.  Arrays live in a heap (a sequence of rasters); *)
(* a reference is an index into the heap, so that "returns a new array"    *)
(* and "writes into its argument" are different things.  Every OpenCV call *)
(* is logged in a sequence of records, which is what the properties about  *)
(* kernel sizes and invoked functions read.                                *)
(*                                                                         *)
(* Floating point: the Sobel and Laplacian responses of an 8-bit image     *)
(* under integer kernels are integers, so CV_64F arrays are modelled by    *)
(* integers exactly.  The float32 gradient magnitude of the "Both" branch  *)
(* is modelled at integer precision (floor of the square root).            *)
(***************************************************************************)
EXTENDS Integers, Sequences, FiniteSets, TLC

(***************************************************************************)
(* Bounds of the model.                                                    *)
(***************************************************************************)
\* number of pixels of the largest input image (all shapes h x w, h*w <= MaxPixels)
MaxPixels == 4
\* number of pixels of the largest image uploaded to the app
MaxUploadPixels == 2
\* kernel size requests range over -KNeg .. KMax
KNeg == 2
KMax == 4

(***************************************************************************)
(* Arithmetic helpers (numpy / C++ scalar operations).                     *)
(***************************************************************************)
Abs(x) == IF x < 0 THEN -x ELSE x

Min(a, b) == IF a < b THEN a ELSE b

Max(a, b) == IF a > b THEN a ELSE b

\* the value of F at the value of e, with e computed once before F is:
\* Python's `x = e` followed by a computation that reads x
With(e, F(_)) == CHOOSE y \in {F(x) : x \in {e}} : TRUE

RECURSIVE SumTo(_, _)
\* f[1] + ... + f[n]
SumTo(f, n) == IF n = 0 THEN 0 ELSE f[n] + SumTo(f, n - 1)

RECURSIVE SqrtSearch(_, _, _)
\* the largest r in lo..hi with r*r <= a (hi*hi > a or hi = lo)
SqrtSearch(a, lo, hi) ==
    IF lo >= hi THEN lo
    ELSE With((lo + hi + 1) \div 2, LAMBDA mid :
            IF mid * mid <= a THEN SqrtSearch(a, mid, hi)
                              ELSE SqrtSearch(a, lo, mid - 1))

\* floor of the square root of a, 0 <= a < 2^30
ISqrt(a) == SqrtSearch(a, 0, 32767)

\* saturate_cast<uchar>: clamp an integer to 0..255
SaturateU8(x) == IF x < 0 THEN 0 ELSE IF x > 255 THEN 255 ELSE x

(***************************************************************************)
(* Rasters.                                                                *)
(***************************************************************************)
Height(a) == Len(a.data)

Width(a) == Len(a.data[1])

Channels(a) == IF a.ndim = 2 THEN 1 ELSE Len(a.data[1][1])

Gray(rows) == [ndim |-> 2, data |-> rows]

Colour(rows) == [ndim |-> 3, data |-> rows]

\* the h rows of w elements F(r, c), as sequences
Array(h, w, F(_, _)) ==
    SubSeq([r \in 1..h |-> SubSeq([c \in 1..w |-> F(r, c)], 1, w)], 1, h)

\* apply F to every element of a raster's data, keeping the shape
MapPixels(a, F(_)) == Array(Height(a), Width(a), LAMBDA r, c : F(a.data[r][c]))

\* np.zeros_like(gray, dtype=np.float64)
ZerosLike(a) == Gray(MapPixels(a, LAMBDA p : 0))

(***************************************************************************)
(* The heap of arrays.  A function of the library that returns a new array *)
(* appends it to the heap; every function of the model returns the record  *)
(* [heap, ret, log].                                                       *)
(***************************************************************************)
Alloc(heap, a) == Append(heap, a)

NewRef(heap) == Len(heap) + 1

\* the reference that is no array: the call raised cv2.error, or nothing was
\* returned yet
NoArray == 0

(***************************************************************************)
(* processors/edges.py : _odd                                              *)
(***************************************************************************)
\* a typical slip: testing v % 2 == 0 for "odd"
OddWrongParity(v) == IF v % 2 = 0 THEN v ELSE v + 1

\* Python's % with a positive divisor is the floor modulus, as TLA+'s is
_odd(v) == IF v % 2 = 1 THEN v ELSE v + 1

(***************************************************************************)
(* OpenCV, value level: what each library function computes.               *)
(***************************************************************************)
\* cv2.COLOR_BGR2GRAY on 8-bit data: the fixed-point luma
\* (B*3735 + G*19235 + R*9798 + 2^14) >> 15
Luma(p) == (p[1] * 3735 + p[2] * 19235 + p[3] * 9798 + 16384) \div 32768

BGR2GRAY(a) == Gray(MapPixels(a, Luma))

\* cv2.COLOR_RGB2BGR and cv2.COLOR_BGR2RGB: the same swap of channels 1 and 3
SwapRB(a) == Colour(MapPixels(a, LAMBDA p : <<p[3], p[2], p[1]>>))

\* cv2.COLOR_GRAY2RGB: the value replicated into three channels
GRAY2RGB(a) == Colour(MapPixels(a, LAMBDA p : <<p, p, p>>))

\* borderInterpolate for the 1-based coordinate p of an axis of length len.
\* "reflect101" is BORDER_DEFAULT (gfedcb|abcdefgh|gfedcba), "replicate" is
\* BORDER_REPLICATE (aaaaaa|abcdefgh|hhhhhhh); under "constant"
\* (BORDER_CONSTANT) a coordinate outside the axis stays outside.
BorderInterpolate(p, len, border) ==
    IF (p >= 1 /\ p <= len) \/ border = "constant" THEN p
    ELSE IF border = "replicate" THEN (IF p < 1 THEN 1 ELSE len)
    ELSE IF len = 1 THEN 1
    ELSE LET period == 2 * (len - 1)
             q == (p - 1) % period
         IN  IF q < len THEN q + 1 ELSE period - q + 1

\* the sample of a single-channel raster at (r, c), extrapolated at the border
At(a, r, c, border) ==
    LET rr == BorderInterpolate(r, Height(a), border)
        cc == BorderInterpolate(c, Width(a), border)
    IN  IF rr < 1 \/ rr > Height(a) \/ cc < 1 \/ cc > Width(a) THEN 0 ELSE a.data[rr][cc]

\* correlation of a single-channel raster with the kernel K (a square matrix
\* of odd side, anchored at its centre), as cv2.filter2D computes it; the
\* output has the shape of the input
Filter2D(a, K, border) ==
    With(<<a, K, Len(K), Len(K[1])>>, LAMBDA t :
        LET src == t[1]
            ker == t[2]
            n == t[3]
            m == t[4]
            ar == (n - 1) \div 2
            ac == (m - 1) \div 2
            Resp(r, c) ==
                SumTo([i \in 1..n |->
                         SumTo([j \in 1..m |->
                                  ker[i][j] * At(src, r + i - 1 - ar, c + j - 1 - ac, border)],
                               m)], n)
        IN  Gray(Array(Height(src), Width(src), Resp)))

\* the column kernel ky applied along the rows axis and the row kernel kx
\* along the columns axis, as one matrix (cv2.sepFilter2D)
Outer(ky, kx) == Array(Len(ky), Len(kx), LAMBDA i, j : ky[i] * kx[j])

\* polynomial product of two coefficient sequences
Conv(u, v) ==
    With(<<u, v>>, LAMBDA t :
        SubSeq([n \in 1..(Len(t[1]) + Len(t[2]) - 1) |->
                  SumTo([i \in 1..Len(t[1]) |->
                           IF n - i + 1 >= 1 /\ n - i + 1 <= Len(t[2])
                           THEN t[1][i] * t[2][n - i + 1] ELSE 0],
                        Len(t[1]))],
               1, Len(t[1]) + Len(t[2]) - 1))

RECURSIVE ConvPower(_, _, _)
\* u convolved n times with v
ConvPower(u, v, n) == IF n = 0 THEN u ELSE ConvPower(Conv(u, v), v, n - 1)

\* getSobelKernels: the 1-D kernel of derivative order `order` for aperture
\* ksize > 0 (an aperture of 1 along a differentiated axis is widened to 3)
SobelKernel(order, ksize) ==
    LET n == IF ksize = 1 /\ order > 0 THEN 3 ELSE ksize
    IN  IF n = 1 THEN <<1>>
        ELSE IF n = 3 THEN
            (IF order = 0 THEN <<1, 2, 1>>
             ELSE IF order = 1 THEN <<-1, 0, 1>>
             ELSE <<1, -2, 1>>)
        ELSE ConvPower(ConvPower(<<1>>, <<1, 1>>, n - order - 1), <<-1, 1>>, order)

\* getScharrKernels, which getDerivKernels selects for ksize <= 0
ScharrKernel(order) == IF order = 0 THEN <<3, 10, 3>> ELSE <<-1, 0, 1>>

\* getDerivKernels
DerivKernel(order, ksize) ==
    IF ksize <= 0 THEN ScharrKernel(order) ELSE SobelKernel(order, ksize)

\* cv2.Sobel(src, ddepth, dx, dy, ksize=k) with the given border mode
SobelValue(a, dx, dy, k, border) ==
    Filter2D(a, Outer(DerivKernel(dy, k), DerivKernel(dx, k)), border)

\* cv2.Laplacian(src, CV_64F, ksize=k): the fixed 3x3 kernels for k = 1 and
\* k = 3, else the sum of the two second-derivative Sobel filters
LaplacianKernel(k) ==
    IF k = 1 THEN <<<<0, 1, 0>>, <<1, -4, 1>>, <<0, 1, 0>>>>
    ELSE IF k = 3 THEN <<<<2, 0, 2>>, <<0, -8, 0>>, <<2, 0, 2>>>>
    ELSE With(<<SobelKernel(2, k), SobelKernel(0, k)>>, LAMBDA t :
            LET kd == t[1]
                ks == t[2]
            IN  Array(k, k, LAMBDA i, j : ks[i] * kd[j] + kd[i] * ks[j]))

LaplacianValue(a, k) == Filter2D(a, LaplacianKernel(k), "reflect101")

\* a conversion that wraps modulo 256, as a numpy astype(np.uint8) would
ConvertScaleAbsWrap(a) == Gray(MapPixels(a, LAMBDA p : Abs(p) % 256))

\* cv2.convertScaleAbs with scale 1 and shift 0: saturate_cast<uchar>(|x|)
ConvertScaleAbsValue(a) == Gray(MapPixels(a, LAMBDA p : SaturateU8(Abs(p))))

\* the values of a single-channel raster
Values(a) == {a.data[r][c] : r \in 1..Height(a), c \in 1..Width(a)}

SetMax(S) == CHOOSE v \in S : \A w \in S : w <= v

SetMin(S) == CHOOSE v \in S : \A w \in S : v <= w

\* cv2.magnitude: sqrt(x^2 + y^2) per element (at integer precision)
MagnitudeValue(x, y) ==
    Gray(Array(Height(x), Width(x), LAMBDA r, c :
            ISqrt(x.data[r][c] * x.data[r][c] + y.data[r][c] * y.data[r][c])))

\* cv2.normalize(src, None, 0, 255, cv2.NORM_MINMAX):
\*   scale = (255 - 0) * (smax - smin > DBL_EPSILON ? 1/(smax - smin) : 0)
\*   dst   = (src - smin) * scale + 0
\* (at integer precision: the floor of the rescaled value)
NormalizeMinMaxValue(a) ==
    With(<<SetMin(Values(a)), SetMax(Values(a))>>, LAMBDA t :
        LET smin == t[1]
            smax == t[2]
        IN  Gray(MapPixels(a, LAMBDA p :
                    IF smax - smin > 0 THEN ((p - smin) * 255) \div (smax - smin) ELSE 0)))

\* ndarray.astype(np.uint8) of a non-negative value: truncation, then the
\* low 8 bits
AsTypeU8Value(a) == Gray(MapPixels(a, LAMBDA p : p % 256))

\* ndarray.astype(np.float32) of a CV_64F array of integers below 2^24
AsTypeF32Value(a) == Gray(MapPixels(a, LAMBDA p : p))

\* the kernel cv2.GaussianBlur uses on 8-bit data, as 8.8 fixed-point weights
\* (units of 1/256).  sigma is 0 (0.0: the weights of the fixed table for the
\* aperture) or 1 (1.0); an aperture <= 0 with sigma > 0 is replaced by
\* cvRound(sigma*3*2 + 1) | 1 = 7.
GaussianWeights(k, sigma) ==
    LET n == IF k <= 0 THEN 7 ELSE k
    IN  IF n = 1 THEN <<256>>
        ELSE IF sigma = 0 THEN
            (IF n = 3 THEN <<64, 128, 64>>
             ELSE IF n = 5 THEN <<16, 64, 96, 64, 16>>
             ELSE <<8, 28, 56, 72, 56, 28, 8>>)
        ELSE
            (IF n = 3 THEN <<70, 116, 70>>
             ELSE IF n = 5 THEN <<14, 62, 104, 62, 14>>
             ELSE <<1, 14, 62, 102, 62, 14, 1>>)

\* cv2.GaussianBlur(gray, (k, k), sigmaX=sigma, sigmaY=sigma): the separable
\* fixed-point filter, rounded to 8 bits
GaussianBlurValue(a, k, sigma) ==
    With(Filter2D(a, Outer(GaussianWeights(k, sigma), GaussianWeights(k, sigma)),
                  "reflect101"),
         LAMBDA acc : Gray(MapPixels(acc, LAMBDA p : (p + 32768) \div 65536)))

(***************************************************************************)
(* cv2.Canny(gray, threshold1, threshold2): aperture 3, L1 gradient norm.  *)
(***************************************************************************)
\* the 8-neighbourhood of a pixel inside an h x w grid
Neighbours(p, h, w) ==
    {q \in (1..h) \X (1..w) :
        q # p /\ Abs(q[1] - p[1]) <= 1 /\ Abs(q[2] - p[2]) <= 1}

RECURSIVE Hysteresis(_, _, _, _)
\* the candidates connected to the set S of edge pixels, S included
Hysteresis(S, cand, h, w) ==
    With(S \cup {q \in cand : \E p \in S : q \in Neighbours(p, h, w)}, LAMBDA T :
        IF T = S THEN S ELSE Hysteresis(T, cand, h, w))

\* the final map written as the gradient magnitude of the edge pixels
CannyOutputMagnitude(a, threshold1, threshold2) ==
    With(<<SobelValue(a, 1, 0, 3, "replicate"), SobelValue(a, 0, 1, 3, "replicate")>>,
         LAMBDA d :
            Gray(Array(Height(a), Width(a), LAMBDA r, c :
                IF Abs(d[1].data[r][c]) + Abs(d[2].data[r][c]) > Max(threshold1, threshold2)
                THEN Abs(d[1].data[r][c]) + Abs(d[2].data[r][c]) ELSE 0)))

CannyValue(a, threshold1, threshold2) ==
    With(<<SobelValue(a, 1, 0, 3, "replicate"), SobelValue(a, 0, 1, 3, "replicate")>>,
         LAMBDA d :
    LET h == Height(a)
        w == Width(a)
        \* if (low_thresh > high_thresh) std::swap(low_thresh, high_thresh)
        low == Min(threshold1, threshold2)
        high == Max(threshold1, threshold2)
        dx == d[1]
        dy == d[2]
        \* |dx| + |dy|, zero outside the image
        Mag(r, c) ==
            IF r < 1 \/ r > h \/ c < 1 \/ c > w THEN 0
            ELSE Abs(dx.data[r][c]) + Abs(dy.data[r][c])
        \* non-maximum suppression along the quantised gradient direction
        LocalMax(r, c) ==
            LET xs == dx.data[r][c]
                ys == dy.data[r][c]
                x == Abs(xs)
                y == Abs(ys) * 32768
                m == Mag(r, c)
                tg22x == x * 13573
                tg67x == tg22x + x * 65536
                s == IF (xs < 0) # (ys < 0) THEN -1 ELSE 1
            IN  IF y < tg22x THEN m > Mag(r, c - 1) /\ m >= Mag(r, c + 1)
                ELSE IF y > tg67x THEN m > Mag(r - 1, c) /\ m >= Mag(r + 1, c)
                ELSE m > Mag(r - 1, c - s) /\ m > Mag(r + 1, c + s)
    IN  With({p \in (1..h) \X (1..w) : Mag(p[1], p[2]) > low /\ LocalMax(p[1], p[2])},
             LAMBDA cand :
        With(Hysteresis({p \in cand : Mag(p[1], p[2]) > high}, cand, h, w),
             LAMBDA edges :
        Gray(Array(h, w, LAMBDA r, c : IF <<r, c>> \in edges THEN 255 ELSE 0)))))

(***************************************************************************)
(* Python strings, as sequences of one-character strings.                  *)
(***************************************************************************)
Lowers == <<"a", "b", "c", "d", "e", "f", "g", "h", "i", "j", "k", "l", "m",
            "n", "o", "p", "q", "r", "s", "t", "u", "v", "w", "x", "y", "z">>

Uppers == <<"A", "B", "C", "D", "E", "F", "G", "H", "I", "J", "K", "L", "M",
            "N", "O", "P", "Q", "R", "S", "T", "U", "V", "W", "X", "Y", "Z">>

\* the index of the character ch in the alphabet, 0 when it is not in it
IndexIn(ch, alphabet) ==
    IF \E i \in 1..Len(alphabet) : alphabet[i] = ch
    THEN CHOOSE i \in 1..Len(alphabet) : alphabet[i] = ch
    ELSE 0

UpperChar(ch) == IF IndexIn(ch, Lowers) > 0 THEN Uppers[IndexIn(ch, Lowers)] ELSE ch

LowerChar(ch) == IF IndexIn(ch, Uppers) > 0 THEN Lowers[IndexIn(ch, Uppers)] ELSE ch

\* str.capitalize(): the first character upper-cased, the rest lower-cased
capitalize(s) ==
    [i \in 1..Len(s) |-> IF i = 1 THEN UpperChar(s[i]) ELSE LowerChar(s[i])]

\* the string literals of run_sobel
StrX == <<"X">>

StrY == <<"Y">>

StrBoth == <<"B", "o", "t", "h">>

(***************************************************************************)
(* OpenCV and numpy, heap level.  m is the machine [heap, log]; the result *)
(* is the machine after the call, with the reference returned in ret.      *)
(***************************************************************************)
\* the call returns a new array holding `value`
Returns(m, op, src, args, value) ==
    [heap |-> Alloc(m.heap, value),
     log  |-> Append(m.log, [op |-> op, src |-> src, dst |-> NewRef(m.heap), args |-> args]),
     ret  |-> NewRef(m.heap)]

\* the call raises cv2.error
Raises(m, op, src, args) ==
    [heap |-> m.heap,
     log  |-> Append(m.log, [op |-> op, src |-> src, dst |-> NoArray, args |-> args]),
     ret  |-> NoArray]

\* a conversion that writes the gray values back into its argument
cvtColorGrayInPlace(m, src) ==
    [heap |-> [m.heap EXCEPT ![src] = BGR2GRAY(m.heap[src])],
     log  |-> Append(m.log, [op |-> "cv2.cvtColor", src |-> src, dst |-> src,
                             args |-> <<"COLOR_BGR2GRAY">>]),
     ret  |-> src]

\* cv2.cvtColor(img_bgr, cv2.COLOR_BGR2GRAY)
cvtColorGray(m, src) ==
    Returns(m, "cv2.cvtColor", src, <<"COLOR_BGR2GRAY">>, BGR2GRAY(m.heap[src]))

\* cv2.GaussianBlur(gray, (k, k), sigmaX=sigma, sigmaY=sigma); a positive
\* aperture must be odd, one that is not positive needs a sigma to derive
\* the aperture from
GaussianBlur(m, src, k, sigma) ==
    IF (k > 0 /\ k % 2 = 0) \/ (k <= 0 /\ sigma <= 0)
    THEN Raises(m, "cv2.GaussianBlur", src, <<k, sigma>>)
    ELSE Returns(m, "cv2.GaussianBlur", src, <<k, sigma>>,
                 GaussianBlurValue(m.heap[src], k, sigma))

\* cv2.Canny(gray, threshold1=low, threshold2=high)
Canny(m, src, low, high) ==
    Returns(m, "cv2.Canny", src, <<low, high>>, CannyValue(m.heap[src], low, high))

\* the filter with the image padded with zeros (borderType=BORDER_CONSTANT)
SobelZeroBorder(m, src, dx, dy, k) ==
    Returns(m, "cv2.Sobel", src, <<k, dx, dy>>,
            SobelValue(m.heap[src], dx, dy, k, "constant"))

\* cv2.Sobel(gray, cv2.CV_64F, dx, dy, ksize=k); the aperture must be odd
\* and at most 31
Sobel(m, src, dx, dy, k) ==
    IF k % 2 = 0 \/ k > 31 THEN Raises(m, "cv2.Sobel", src, <<k, dx, dy>>)
    ELSE Returns(m, "cv2.Sobel", src, <<k, dx, dy>>,
                 SobelValue(m.heap[src], dx, dy, k, "reflect101"))

\* cv2.Laplacian(gray, cv2.CV_64F, ksize=k); the aperture must be positive,
\* odd and at most 31
Laplacian(m, src, k) ==
    IF k <= 0 \/ k % 2 = 0 \/ k > 31 THEN Raises(m, "cv2.Laplacian", src, <<k>>)
    ELSE Returns(m, "cv2.Laplacian", src, <<k>>, LaplacianValue(m.heap[src], k))

\* np.zeros_like(gray, dtype=np.float64)
zeros_like(m, src) == Returns(m, "np.zeros_like", src, <<>>, ZerosLike(m.heap[src]))

\* ndarray.astype(np.float32)
astypeF32(m, src) == Returns(m, "astype.float32", src, <<>>, AsTypeF32Value(m.heap[src]))

\* ndarray.astype(np.uint8)
astypeU8(m, src) == Returns(m, "astype.uint8", src, <<>>, AsTypeU8Value(m.heap[src]))

\* cv2.magnitude(x, y)
magnitude(m, x, y) ==
    Returns(m, "cv2.magnitude", x, <<y>>, MagnitudeValue(m.heap[x], m.heap[y]))

\* cv2.normalize(mag, None, 0, 255, cv2.NORM_MINMAX)
normalize(m, src) ==
    Returns(m, "cv2.normalize", src, <<0, 255>>, NormalizeMinMaxValue(m.heap[src]))

\* cv2.convertScaleAbs(src)
convertScaleAbs(m, src) ==
    Returns(m, "cv2.convertScaleAbs", src, <<>>, ConvertScaleAbsValue(m.heap[src]))

(***************************************************************************)
(* processors/edges.py                                                     *)
(***************************************************************************)
\* the blur given the requested size as it is
GaussianBlurRequested(m, gray, ksize, sigma) == GaussianBlur(m, gray, ksize, sigma)

_gaussian_blur(m, gray, ksize, sigma) ==
    LET k == _odd(ksize)
    IN  GaussianBlur(m, gray, k, sigma)

run_canny(m, img_bgr, low, high, ksize, sigma) ==
    With(cvtColorGray(m, img_bgr), LAMBDA g :
    With(IF ksize > 1 \/ sigma > 0 THEN _gaussian_blur(g, g.ret, ksize, sigma) ELSE g,
         LAMBDA gray :
    IF gray.ret = NoArray THEN gray ELSE Canny(gray, gray.ret, low, high)))

\* direction or "Both": None and the empty string are both <<>>
OrBoth(direction) == IF direction = <<>> THEN StrBoth ELSE direction

\* (direction or "Both").capitalize()
NormalizeDirection(direction) == capitalize(OrBoth(direction))

run_sobel(m, img_bgr, ksize, direction) ==
    LET k == _odd(ksize)
        dir == NormalizeDirection(direction)
        dx == IF dir \in {StrX, StrBoth} THEN 1 ELSE 0
        dy == IF dir \in {StrY, StrBoth} THEN 1 ELSE 0
    IN  With(cvtColorGray(m, img_bgr), LAMBDA gray :
        With(IF dx = 1 THEN Sobel(gray, gray.ret, 1, 0, k) ELSE zeros_like(gray, gray.ret),
             LAMBDA gx :
        IF gx.ret = NoArray THEN gx ELSE
        With(IF dy = 1 THEN Sobel(gx, gray.ret, 0, 1, k) ELSE zeros_like(gx, gray.ret),
             LAMBDA gy :
        IF gy.ret = NoArray THEN gy ELSE
        IF dir = StrBoth THEN
            With(astypeF32(gy, gx.ret), LAMBDA fx :
            With(astypeF32(fx, gy.ret), LAMBDA fy :
            With(magnitude(fy, fx.ret, fy.ret), LAMBDA mag :
            With(normalize(mag, mag.ret), LAMBDA norm :
            astypeU8(norm, norm.ret)))))
        ELSE
            \* single = gx if dx else gy
            convertScaleAbs(gy, IF dx = 1 THEN gx.ret ELSE gy.ret))))

run_laplacian(m, img_bgr, ksize) ==
    LET k == _odd(ksize)
    IN  With(cvtColorGray(m, img_bgr), LAMBDA gray :
        With(Laplacian(gray, gray.ret, k), LAMBDA lap :
        IF lap.ret = NoArray THEN lap ELSE convertScaleAbs(lap, lap.ret)))

(***************************************************************************)
(* utils/image_io.py.  A PIL image is the array of its pixels.             *)
(***************************************************************************)
\* a converter that copies the array without reordering the channels
pil_to_cv2_no_swap(m, img_pil) ==
    With(Returns(m, "np.array", img_pil, <<"RGB">>, m.heap[img_pil]), LAMBDA arr :
    Returns(arr, "cv2.cvtColor", arr.ret, <<"COLOR_RGB2BGR">>, arr.heap[arr.ret]))

pil_to_cv2(m, img_pil) ==
    With(Returns(m, "np.array", img_pil, <<"RGB">>, m.heap[img_pil]), LAMBDA arr :
    Returns(arr, "cv2.cvtColor", arr.ret, <<"COLOR_RGB2BGR">>, SwapRB(arr.heap[arr.ret])))

\* a converter that hands a single-channel array to PIL as it is
cv2_to_pil_keep_gray(m, img_cv) ==
    With(IF m.heap[img_cv].ndim = 2
         THEN Returns(m, "np.copy", img_cv, <<>>, m.heap[img_cv])
         ELSE Returns(m, "cv2.cvtColor", img_cv, <<"COLOR_BGR2RGB">>, SwapRB(m.heap[img_cv])),
         LAMBDA rgb :
    Returns(rgb, "Image.fromarray", rgb.ret, <<>>, rgb.heap[rgb.ret]))

cv2_to_pil(m, img_cv) ==
    With(IF m.heap[img_cv].ndim = 2
         THEN Returns(m, "cv2.cvtColor", img_cv, <<"COLOR_GRAY2RGB">>, GRAY2RGB(m.heap[img_cv]))
         ELSE Returns(m, "cv2.cvtColor", img_cv, <<"COLOR_BGR2RGB">>, SwapRB(m.heap[img_cv])),
         LAMBDA rgb :
    Returns(rgb, "Image.fromarray", rgb.ret, <<>>, rgb.heap[rgb.ret]))

(***************************************************************************)
(* State.                                                                  *)
(***************************************************************************)
VARIABLES
    heap,      \* the arrays alive, by reference
    log,       \* the library calls made since the caller's call began
    calls,     \* the calls of run_canny / run_sobel / run_laplacian made
    img,       \* the reference of the caller's raster (bgr in app.py)
    before,    \* the value of the caller's raster when the call began
    out,       \* the reference returned to the caller, NoArray if it raised
    out_pil,   \* the reference of the PIL image made of out
    ui         \* the widgets of app.py: uploaded file, algorithm, parameters

vars == <<heap, log, calls, img, before, out, out_pil, ui>>

(***************************************************************************)
(* Inputs.                                                                 *)
(***************************************************************************)
\* black, white, and the colour whose first channel alone is saturated
Palette == {<<0, 0, 0>>, <<255, 255, 255>>, <<255, 0, 0>>}

\* every 3-channel raster of at most n pixels over the palette
Images(n) ==
    UNION {{Colour(d) : d \in [1..s[1] -> [1..s[2] -> Palette]]} :
            s \in {t \in (1..n) \X (1..n) : t[1] * t[2] <= n}}

KsizeRequests == (-KNeg)..KMax

\* 0.0 and 1.0
Sigmas == {0, 1}

Thresholds == {100, 200}

Directions ==
    {<<>>, <<"X">>, <<"x">>, <<"Y">>,
     <<"B", "o", "t", "h">>, <<"b", "o", "t", "h">>, <<"B", "O", "T", "H">>,
     <<"Z">>, <<"d", "i", "a", "g", "o", "n", "a", "l">>}

\* the parameters of a call, one record shape for the three functions
Args(fn, ksize, sigma, low, high, direction) ==
    [fn |-> fn, ksize |-> ksize, sigma |-> sigma, low |-> low, high |-> high,
     direction |-> direction]

\* the widgets before any interaction: no file, the first radio option, the
\* sliders' default values
CannyDefaults == [ksize |-> 5, sigma |-> 1, low |-> 100, high |-> 200, direction |-> <<>>]

SobelDefaults == [ksize |-> 3, sigma |-> 0, low |-> 0, high |-> 0, direction |-> StrX]

LaplacianDefaults == [ksize |-> 3, sigma |-> 0, low |-> 0, high |-> 0, direction |-> <<>>]

DefaultsOf(algo) ==
    IF algo = "Canny" THEN CannyDefaults
    ELSE IF algo = "Sobel" THEN SobelDefaults
    ELSE LaplacianDefaults

UiInit == [uploaded |-> <<>>, algo |-> "Canny", params |-> CannyDefaults]

(***************************************************************************)
(* Specification of the library: a caller holding a raster calls one of    *)
(* the functions with parameters of its choice, then may convert the       *)
(* result for display.                                                     *)
(***************************************************************************)
Init ==
    \E a \in Images(MaxPixels) :
        /\ heap = <<a>>
        /\ log = <<>>
        /\ calls = <<>>
        /\ img = 1
        /\ before = a
        /\ out = NoArray
        /\ out_pil = NoArray
        /\ ui = UiInit

\* the variables other than ui become the fields of r
Shown(r) ==
    /\ heap' = r.heap
    /\ log' = r.log
    /\ calls' = r.calls
    /\ img' = r.img
    /\ before' = r.before
    /\ out' = r.out
    /\ out_pil' = r.out_pil

\* the caller's state after the call that produced the machine r
Returned(r, args) ==
    /\ Shown([heap |-> r.heap, log |-> r.log, calls |-> Append(calls, args), img |-> img,
              before |-> before, out |-> r.ret, out_pil |-> out_pil])
    /\ UNCHANGED ui

CallCanny(low, high, ksize, sigma) ==
    /\ calls = <<>>
    /\ \E r \in {run_canny([heap |-> heap, log |-> log], img, low, high, ksize, sigma)} :
          Returned(r, Args("run_canny", ksize, sigma, low, high, <<>>))

CallSobel(ksize, direction) ==
    /\ calls = <<>>
    /\ \E r \in {run_sobel([heap |-> heap, log |-> log], img, ksize, direction)} :
          Returned(r, Args("run_sobel", ksize, 0, 0, 0, direction))

CallLaplacian(ksize) ==
    /\ calls = <<>>
    /\ \E r \in {run_laplacian([heap |-> heap, log |-> log], img, ksize)} :
          Returned(r, Args("run_laplacian", ksize, 0, 0, 0, <<>>))

\* pil_to_cv2 of the raster, taken as a PIL image, then cv2_to_pil
CallRoundTrip ==
    /\ calls = <<>>
    /\ \E a \in {pil_to_cv2([heap |-> heap, log |-> log], img)} :
       \E r \in {cv2_to_pil(a, a.ret)} :
          Returned(r, Args("round_trip", 0, 0, 0, 0, <<>>))

\* cv2_to_pil of the raster a filter returned
CallToPil ==
    /\ calls # <<>>
    /\ calls[1].fn # "round_trip"
    /\ out # NoArray
    /\ out_pil = NoArray
    /\ \E p \in {cv2_to_pil([heap |-> heap, log |-> log], out)} :
           /\ Shown([heap |-> p.heap, log |-> p.log, calls |-> calls, img |-> img,
                     before |-> before, out |-> out, out_pil |-> p.ret])
           /\ UNCHANGED ui

Next ==
    \/ \E low \in Thresholds, high \in Thresholds, ksize \in KsizeRequests, sigma \in Sigmas :
          CallCanny(low, high, ksize, sigma)
    \/ \E ksize \in KsizeRequests, direction \in Directions : CallSobel(ksize, direction)
    \/ \E ksize \in KsizeRequests : CallLaplacian(ksize)
    \/ CallRoundTrip
    \/ CallToPil

Spec == Init /\ [][Next]_vars

(***************************************************************************)
(* app.py.  Streamlit runs the script from the top when a widget changes;  *)
(* a handler is the change of one widget followed by one run of the script.*)
(***************************************************************************)
\* the name of the function a call record names, for each algorithm
FunctionOf(algo) ==
    IF algo = "Canny" THEN "run_canny"
    ELSE IF algo = "Sobel" THEN "run_sobel"
    ELSE "run_laplacian"

\* the branches written as two independent statements, `if Canny` and
\* `if Sobel ... else`, so that Canny falls into the else as well
ProcessIfIf(m, bgr, algo, params) ==
    IF algo = "Canny" THEN
        With(run_canny(m, bgr, params.low, params.high, params.ksize, params.sigma),
             LAMBDA c :
            [m |-> run_laplacian(c, bgr, params.ksize),
             made |-> <<Args("run_canny", params.ksize, params.sigma,
                             params.low, params.high, <<>>),
                        Args("run_laplacian", params.ksize, 0, 0, 0, <<>>)>>])
    ELSE IF algo = "Sobel" THEN
        [m |-> run_sobel(m, bgr, params.ksize, params.direction),
         made |-> <<Args("run_sobel", params.ksize, 0, 0, 0, params.direction)>>]
    ELSE
        [m |-> run_laplacian(m, bgr, params.ksize),
         made |-> <<Args("run_laplacian", params.ksize, 0, 0, 0, <<>>)>>]

\* the if / elif / else of the image processing section: the machine after
\* it, and the calls made
Process(m, bgr, algo, params) ==
    IF algo = "Canny" THEN
        [m |-> run_canny(m, bgr, params.low, params.high, params.ksize, params.sigma),
         made |-> <<Args("run_canny", params.ksize, params.sigma,
                         params.low, params.high, <<>>)>>]
    ELSE IF algo = "Sobel" THEN
        [m |-> run_sobel(m, bgr, params.ksize, params.direction),
         made |-> <<Args("run_sobel", params.ksize, 0, 0, 0, params.direction)>>]
    ELSE
        [m |-> run_laplacian(m, bgr, params.ksize),
         made |-> <<Args("run_laplacian", params.ksize, 0, 0, 0, <<>>)>>]

\* one run of the script with the widgets u: what it leaves behind
Script(u) ==
    IF u.uploaded = <<>> THEN
        \* st.stop(): nothing below the uploader runs
        [heap |-> <<>>, log |-> <<>>, calls |-> <<>>, img |-> NoArray, before |-> <<>>,
         out |-> NoArray, out_pil |-> NoArray]
    ELSE
        \* pil_img = Image.open(uploaded).convert("RGB") is array 1
        With(pil_to_cv2([heap |-> <<u.uploaded[1]>>, log |-> <<>>], 1), LAMBDA bgr :
        With(Process(bgr, bgr.ret, u.algo, u.params), LAMBDA p :
        \* an exception ends the run before cv2_to_pil
        With(IF p.m.ret = NoArray THEN p.m ELSE cv2_to_pil(p.m, p.m.ret), LAMBDA pil :
        [heap |-> pil.heap, log |-> pil.log, calls |-> p.made, img |-> bgr.ret,
         before |-> bgr.heap[bgr.ret], out |-> p.m.ret, out_pil |-> pil.ret])))

\* the values of the kernel size sliders (1 to 15 in steps of 2) that the
\* model covers
SliderKsizes == {v \in 1..15 : (v - 1) % 2 = 0 /\ v <= _odd(KMax)}

\* the widgets become u and the script runs
Rerun(u) ==
    /\ ui' = u
    /\ \E r \in {Script(u)} : Shown(r)

AppInit ==
    /\ ui = UiInit
    /\ heap = <<>>
    /\ log = <<>>
    /\ calls = <<>>
    /\ img = NoArray
    /\ before = <<>>
    /\ out = NoArray
    /\ out_pil = NoArray

\* the file uploader changes: another file, or the file is removed.  With no
\* file the script stops before the sidebar, whose widgets are then forgotten
\* and come back with their defaults.
Upload(file) ==
    /\ file # ui.uploaded
    /\ Rerun(IF file = <<>> THEN UiInit ELSE [ui EXCEPT !.uploaded = file])

\* the radio changes; the sliders of the algorithm appear with their defaults
SelectAlgo(algo) ==
    /\ ui.uploaded # <<>>
    /\ algo # ui.algo
    /\ Rerun([ui EXCEPT !.algo = algo, !.params = DefaultsOf(algo)])

SetKsize(v) ==
    /\ ui.uploaded # <<>>
    /\ v # ui.params.ksize
    /\ Rerun([ui EXCEPT !.params.ksize = v])

SetSigma(v) ==
    /\ ui.uploaded # <<>>
    /\ ui.algo = "Canny"
    /\ v # ui.params.sigma
    /\ Rerun([ui EXCEPT !.params.sigma = v])

SetLow(v) ==
    /\ ui.uploaded # <<>>
    /\ ui.algo = "Canny"
    /\ v # ui.params.low
    /\ Rerun([ui EXCEPT !.params.low = v])

SetHigh(v) ==
    /\ ui.uploaded # <<>>
    /\ ui.algo = "Canny"
    /\ v # ui.params.high
    /\ Rerun([ui EXCEPT !.params.high = v])

SetDirection(d) ==
    /\ ui.uploaded # <<>>
    /\ ui.algo = "Sobel"
    /\ d # ui.params.direction
    /\ Rerun([ui EXCEPT !.params.direction = d])

AppNext ==
    \/ \E file \in {<<>>} \cup {<<a>> : a \in Images(MaxUploadPixels)} : Upload(file)
    \/ \E algo \in {"Canny", "Sobel", "Laplacian"} : SelectAlgo(algo)
    \/ \E v \in SliderKsizes : SetKsize(v)
    \/ \E v \in Sigmas : SetSigma(v)
    \/ \E v \in Thresholds : SetLow(v)
    \/ \E v \in Thresholds : SetHigh(v)
    \/ \E d \in {StrX, StrY, StrBoth} : SetDirection(d)

AppSpec == AppInit /\ [][AppNext]_vars

(***************************************************************************)
(* Properties.                                                             *)
(***************************************************************************)
Filters == {"run_canny", "run_sobel", "run_laplacian"}

\* a call of one of the three filters has been made from the library's caller
FilterCalled == calls # <<>> /\ calls[1].fn \in Filters

\* the entries of the log that hand a kernel size to a blur, Sobel or
\* Laplacian operator; the size is the first argument
KernelOps == {"cv2.GaussianBlur", "cv2.Sobel", "cv2.Laplacian"}

KernelEntries == {i \in 1..Len(log) : log[i].op \in KernelOps}

\* every element of a single-channel raster satisfies P
AllPixels(a, P(_)) == \A r \in 1..Height(a) : \A c \in 1..Width(a) : P(a.data[r][c])

\* all the rows of the raster have the width of the first
Rectangular(a) == \A r \in 1..Height(a) : Len(a.data[r]) = Width(a)

\* C1: an odd kernel size request k >= 1 reaches the operators as k, an
\* even request k >= 2 as k + 1
C1_OddKept ==
    FilterCalled =>
        \A i \in KernelEntries :
            LET k == calls[1].ksize
            IN  /\ (k >= 1 /\ k % 2 = 1) => log[i].args[1] = k
                /\ (k >= 2 /\ k % 2 = 0) => log[i].args[1] = k + 1

\* an even request reached an operator as the next odd size
C1_Witness ==
    /\ FilterCalled
    /\ calls[1].ksize = 2
    /\ \E i \in KernelEntries : log[i].args[1] = 3

\* the direction a request stands for according to the claim: X, Y or Both
\* whatever the letter case, and Both for anything else
ClaimedDirection(direction) ==
    IF capitalize(direction) = StrX THEN StrX
    ELSE IF capitalize(direction) = StrY THEN StrY
    ELSE StrBoth

C3_RoundTrip ==
    (calls # <<>> /\ calls[1].fn = "round_trip") =>
        /\ out # NoArray
        /\ heap[out] = before

\* a round trip of a raster with a pixel whose channels differ
C3_Witness ==
    /\ calls # <<>>
    /\ calls[1].fn = "round_trip"
    /\ \E r \in 1..Height(before) : \E c \in 1..Width(before) :
          before.data[r][c][1] # before.data[r][c][3]
    /\ \E i \in 1..Len(log) : log[i].op = "cv2.cvtColor" /\ log[i].args = <<"COLOR_BGR2RGB">>

\* the call is run_sobel with direction X or Y, or run_laplacian
SingleResponseCall ==
    /\ FilterCalled
    /\ \/ calls[1].fn = "run_laplacian"
       \/ calls[1].fn = "run_sobel" /\ capitalize(calls[1].direction) \in {StrX, StrY}
    /\ out # NoArray

\* the log entry of the operator whose response was converted into out
ResponseEntry ==
    CHOOSE i \in 1..Len(log) :
        /\ log[i].op \in {"cv2.Sobel", "cv2.Laplacian"}
        /\ \E j \in 1..Len(log) : log[j].dst = out /\ log[j].src = log[i].dst

\* C4: for run_sobel X or Y and run_laplacian every output pixel is
\* min(255, |g|) of the operator response g at that pixel, so lies in 0..255
C4_Saturated ==
    SingleResponseCall =>
        /\ \E i \in 1..Len(log) :
              /\ log[i].op \in {"cv2.Sobel", "cv2.Laplacian"}
              /\ \E j \in 1..Len(log) : log[j].dst = out /\ log[j].src = log[i].dst
        /\ LET g == heap[log[ResponseEntry].dst]
           IN  \A r \in 1..Height(before) : \A c \in 1..Width(before) :
                  /\ heap[out].data[r][c] = Min(255, Abs(g.data[r][c]))
                  /\ heap[out].data[r][c] \in 0..255

\* a response beyond the 8-bit range came out as 255
C4_Witness ==
    /\ SingleResponseCall
    /\ LET g == heap[log[ResponseEntry].dst]
       IN  \E r \in 1..Height(before) : \E c \in 1..Width(before) :
              Abs(g.data[r][c]) > 255 /\ heap[out].data[r][c] = 255

\* all the pixels of the caller's raster have the same colour
Uniform(a) ==
    \A r \in 1..Height(a) : \A c \in 1..Width(a) : a.data[r][c] = a.data[1][1]

\* the call is run_sobel with a direction that the code takes as Both
BothCall ==
    /\ FilterCalled
    /\ calls[1].fn = "run_sobel"
    /\ calls[1].direction = <<>> \/ capitalize(calls[1].direction) = StrBoth

C6_CannyBinary ==
    (FilterCalled /\ calls[1].fn = "run_canny") =>
        /\ out # NoArray
        /\ AllPixels(heap[out], LAMBDA p : p \in {0, 255})

\* run_canny with low > high returned a raster with edge and non-edge pixels
C6_Witness ==
    /\ FilterCalled
    /\ calls[1].fn = "run_canny"
    /\ calls[1].low > calls[1].high
    /\ out # NoArray
    /\ 0 \in Values(heap[out])
    /\ 255 \in Values(heap[out])

\* C7: every kernel size that reaches a blur, Sobel or Laplacian operator is
\* odd, for every requested size, zero and negative sizes included
C7_KernelOdd ==
    FilterCalled => \A i \in KernelEntries : log[i].args[1] % 2 = 1

\* a request that is not positive reached the blur of run_canny
C7_Witness ==
    /\ FilterCalled
    /\ calls[1].fn = "run_canny"
    /\ calls[1].ksize <= 0
    /\ \E i \in KernelEntries : log[i].op = "cv2.GaussianBlur"

\* C8: a run of the script with an uploaded image invokes exactly one of the
\* three filters, once, the one of the selected algorithm; with no image it
\* invokes none
C8_OneFilterPerRun ==
    /\ ui.uploaded # <<>> =>
          /\ Len(calls) = 1
          /\ calls[1].fn = FunctionOf(ui.algo)
          /\ Cardinality({i \in 1..Len(log) :
                log[i].op = "cv2.cvtColor" /\ log[i].args = <<"COLOR_BGR2GRAY">>}) = 1
    /\ ui.uploaded = <<>> => calls = <<>> /\ log = <<>>

\* a run with an image and the Laplacian selected
C8_Witness ==
    /\ ui.uploaded # <<>>
    /\ ui.algo = "Laplacian"
    /\ Len(calls) = 1
    /\ calls[1].fn = "run_laplacian"

\* C9: a call of a filter leaves the caller's raster as it was and returns
\* another array than the caller's
C9_NoAliasing ==
    FilterCalled =>
        /\ heap[img].ndim = before.ndim
        /\ heap[img].data = before.data
        /\ out # NoArray => out # img

\* run_canny returned with the blur skipped (ksize <= 1 and sigma = 0)
C9_Witness ==
    /\ FilterCalled
    /\ calls[1].fn = "run_canny"
    /\ calls[1].ksize <= 1
    /\ calls[1].sigma = 0
    /\ out # NoArray
    /\ \A i \in 1..Len(log) : log[i].op # "cv2.GaussianBlur"

\* C10: the raster a filter returns is single-channel with the height and
\* width of the input, and its cv2_to_pil conversion has three channels and
\* the same height and width
C10_ShapeKept ==
    (FilterCalled /\ out # NoArray) =>
        /\ heap[out].ndim = 2
        /\ Height(heap[out]) = Height(before)
        /\ Width(heap[out]) = Width(before)
        /\ Rectangular(heap[out])
        /\ out_pil # NoArray =>
              /\ heap[out_pil].ndim = 3
              /\ Height(heap[out_pil]) = Height(before)
              /\ Width(heap[out_pil]) = Width(before)
              /\ Rectangular(heap[out_pil])
              /\ \A r \in 1..Height(before) : \A c \in 1..Width(before) :
                    Len(heap[out_pil].data[r][c]) = 3

\* the output of run_sobel Both on an image that is not square was converted
C10_Witness ==
    /\ BothCall
    /\ out # NoArray
    /\ out_pil # NoArray
    /\ Height(before) # Width(before)
    /\ Channels(heap[out_pil]) = 3

====
